---- MODULE Spec2Model ----
(***************************************************************************)
(* Model of the API change detector of src/src/index.ts: the path filter   *)
(* and patch scan of detectApiChanges, the whole-file scan of              *)
(* extractApiEndpoints, and the CallTool handler that runs them on data    *)
(* fetched from the remote repository client.                              *)
(*                                                                         *)
(* Text is modelled as TLA+ strings, read character by character.  The     *)
(* JavaScript regular expressions of the source are modelled as syntax     *)
(* trees run by a backtracking matcher that returns the candidate matches  *)
(* in the engine's priority order.  The backquote cannot be written in a   *)
(* TLA+ string: the quote class of the signatures holds ' and " only and   *)
(* no modelled text contains a backquote.                                  *)
(***************************************************************************)
EXTENDS Integers, Sequences, FiniteSets, TLC

(***************************************************************************)
(* Characters and strings                                                  *)
(***************************************************************************)
Ch(s, i) == SubSeq(s, i, i)

\* The letters, each lower-case letter with its upper-case form.
UpperOf ==
  [a |-> "A", b |-> "B", c |-> "C", d |-> "D", e |-> "E", f |-> "F", g |-> "G",
   h |-> "H", i |-> "I", j |-> "J", k |-> "K", l |-> "L", m |-> "M", n |-> "N",
   o |-> "O", p |-> "P", q |-> "Q", r |-> "R", s |-> "S", t |-> "T", u |-> "U",
   v |-> "V", w |-> "W", x |-> "X", y |-> "Y", z |-> "Z"]
LowerChars == DOMAIN UpperOf
UpperChars == {UpperOf[c] : c \in LowerChars}
DigitChars == {"0", "1", "2", "3", "4", "5", "6", "7", "8", "9"}

\* Canonicalize of a case-insensitive regular expression, and toLowerCase,
\* on one character.
Fold(c) == IF c \in UpperChars THEN CHOOSE l \in LowerChars : UpperOf[l] = c ELSE c

UpChar(c) == IF c \in LowerChars THEN UpperOf[c] ELSE c

RECURSIVE toUpperCase(_)
toUpperCase(s) ==
  IF Len(s) = 0 THEN "" ELSE UpChar(Ch(s, 1)) \o toUpperCase(SubSeq(s, 2, Len(s)))

\* \s and \w of the regular expressions, and the white space String.trim strips.
IsSpace(c) == c \in {" ", "\t", "\r", "\n"}
IsWord(c) == c \in LowerChars \/ c \in UpperChars \/ c \in DigitChars \/ c = "_"
IsQuote(c) == c \in {"'", "\""}

RECURSIVE TrimStart(_)
TrimStart(s) ==
  IF Len(s) > 0 /\ IsSpace(Ch(s, 1)) THEN TrimStart(SubSeq(s, 2, Len(s))) ELSE s

RECURSIVE TrimEnd(_)
TrimEnd(s) ==
  IF Len(s) > 0 /\ IsSpace(Ch(s, Len(s))) THEN TrimEnd(SubSeq(s, 1, Len(s) - 1)) ELSE s

trim(s) == TrimEnd(TrimStart(s))

\* String.split("\n"): the pieces between line feeds, empty pieces kept.
split(s) ==
  LET feeds == {i \in 1..Len(s) : Ch(s, i) = "\n"}
      \* position of the k-th line feed; 0 before the first, Len(s) + 1 after the last
      feed(k) == IF k = 0 THEN 0
                 ELSE IF k > Cardinality(feeds) THEN Len(s) + 1
                 ELSE CHOOSE i \in feeds : Cardinality({j \in feeds : j < i}) = k - 1
  IN [k \in 1..(Cardinality(feeds) + 1) |-> SubSeq(s, feed(k - 1) + 1, feed(k) - 1)]

(***************************************************************************)
(* Regular expressions.  A pattern is a syntax tree; Run gives the ways    *)
(* the tree matches text s at position i, in the order a backtracking      *)
(* engine tries them (greedy quantifiers, alternatives left to right), as  *)
(* records [e |-> position after the match, c |-> capture groups].  A      *)
(* capture is << >> while undefined and << text >> once set.               *)
(***************************************************************************)
Lit(str) == [k |-> "lit", s |-> str]
Cls(name) == [k |-> "cls", n |-> name]
Cat(xs) == [k |-> "cat", xs |-> xs]
Alt(xs) == [k |-> "alt", xs |-> xs]
\* The quantifiers * and + of the source's patterns all apply to one
\* character or character class: x is a "cls" node.
Star(x) == [k |-> "rep", n |-> x.n, min |-> 0]
Plus(x) == [k |-> "rep", n |-> x.n, min |-> 1]
Opt(x) == [k |-> "alt", xs |-> << x, [k |-> "cat", xs |-> << >>] >>]
Grp(n, x) == [k |-> "grp", g |-> n, x |-> x]

MaxGroups == 3
NoCaptures == [g \in 1..MaxGroups |-> << >>]

InClass(name, c) ==
  CASE name = "space" -> IsSpace(c)
    [] name = "word" -> IsWord(c)
    [] name = "quote" -> IsQuote(c)
    [] name = "notquote" -> ~IsQuote(c)
    [] name = "notquoteparen" -> ~IsQuote(c) /\ c # ")"
    [] name = "dot" -> c \notin {"\n", "\r"}

LitAt(str, ic, s, i) ==
  /\ i + Len(str) - 1 <= Len(s)
  /\ \A j \in 1..Len(str) :
       \/ Ch(s, i + j - 1) = Ch(str, j)
       \/ ic /\ Fold(Ch(s, i + j - 1)) = Fold(Ch(str, j))

RECURSIVE Run(_, _, _, _, _)
RECURSIVE RunEach(_, _, _, _)
RECURSIVE RunCat(_, _, _, _, _)
RECURSIVE RunAlt(_, _, _, _, _, _)

\* The continuations of node x from each candidate of rs, in order.
RunEach(x, ic, s, rs) ==
  IF rs = << >> THEN << >>
  ELSE Run(x, ic, s, Head(rs).e, Head(rs).c) \o RunEach(x, ic, s, Tail(rs))

\* Dropping a candidate equal to an earlier one changes no outcome: the
\* engine would continue from it exactly as from the earlier one.
Distinct(rs) ==
  LET first == {n \in 1..Len(rs) : \A m \in 1..(n - 1) : rs[m] # rs[n]}
  IN [k \in 1..Cardinality(first) |->
        rs[CHOOSE n \in first : Cardinality({m \in first : m < n}) = k - 1]]

RunCat(xs, j, ic, s, rs) ==
  IF j > Len(xs) \/ rs = << >> THEN rs
  ELSE RunCat(xs, j + 1, ic, s, Distinct(RunEach(xs[j], ic, s, rs)))

RunAlt(xs, j, ic, s, i, c) ==
  IF j > Len(xs) THEN << >>
  ELSE Run(xs[j], ic, s, i, c) \o RunAlt(xs, j + 1, ic, s, i, c)

Run(x, ic, s, i, c) ==
  CASE x.k = "lit" ->
         IF LitAt(x.s, ic, s, i) THEN << [e |-> i + Len(x.s), c |-> c] >> ELSE << >>
    [] x.k = "cls" ->
         IF i <= Len(s) /\ InClass(x.n, Ch(s, i)) THEN << [e |-> i + 1, c |-> c] >> ELSE << >>
    [] x.k = "cat" -> RunCat(x.xs, 1, ic, s, << [e |-> i, c |-> c] >>)
    [] x.k = "alt" -> RunAlt(x.xs, 1, ic, s, i, c)
    [] x.k = "rep" ->
         LET run == CHOOSE n \in 0..(Len(s) + 1 - i) :
                      /\ \A j \in i..(i + n - 1) : InClass(x.n, Ch(s, j))
                      /\ (i + n <= Len(s) => ~InClass(x.n, Ch(s, i + n)))
         IN IF run < x.min THEN << >>
            ELSE [n \in 1..(run - x.min + 1) |-> [e |-> i + run - n + 1, c |-> c]]
    [] x.k = "grp" ->
         LET rs == Run(x.x, ic, s, i, c)
         IN [n \in 1..Len(rs) |->
               [e |-> rs[n].e,
                c |-> [rs[n].c EXCEPT ![x.g] = << SubSeq(s, i, rs[n].e - 1) >>]]]

\* A regular expression object: its tree and its ignoreCase flag.
RegExp(tree, ignoreCase) == [tree |-> tree, ic |-> ignoreCase]

MatchesAt(re, s, i) == Run(re.tree, re.ic, s, i, NoCaptures)

\* RegExpBuiltinExec with 0-based lastIndex li: the match at the leftmost
\* position at or after li where the pattern matches, the first candidate
\* there; << >> for null.
ExecFrom(re, s, li) ==
  LET starts == {p \in (li + 1)..(Len(s) + 1) : MatchesAt(re, s, p) # << >>}
      i == CHOOSE p \in starts : \A q \in starts : p <= q
      r == Head(MatchesAt(re, s, i))
  IN IF starts = {} THEN << >>
     ELSE << [index |-> i - 1, end |-> r.e - 1, groups |-> r.c] >>

\* The positions at which a match of node x can end when it starts at one
\* of the positions P: the matcher without priorities or captures, enough
\* to tell whether a match exists.
RECURSIVE Reach(_, _, _, _)
RECURSIVE ReachCat(_, _, _, _, _)

ReachCat(xs, j, ic, s, P) ==
  IF j > Len(xs) THEN P ELSE ReachCat(xs, j + 1, ic, s, Reach(xs[j], ic, s, P))

Reach(x, ic, s, P) ==
  CASE x.k = "lit" -> {i + Len(x.s) : i \in {p \in P : LitAt(x.s, ic, s, p)}}
    [] x.k = "cls" -> {i + 1 : i \in {p \in P : p <= Len(s) /\ InClass(x.n, Ch(s, p))}}
    [] x.k = "rep" ->
         LET others == {j \in 1..Len(s) : ~InClass(x.n, Ch(s, j))}
         IN UNION {{e \in (i + x.min)..(Len(s) + 1) : others \cap (i..(e - 1)) = {}} : i \in P}
    [] x.k = "cat" -> ReachCat(x.xs, 1, ic, s, P)
    [] x.k = "alt" -> UNION {Reach(x.xs[j], ic, s, P) : j \in 1..Len(x.xs)}
    [] x.k = "grp" -> Reach(x.x, ic, s, P)

\* RegExp.prototype.test of a pattern without the global flag: is there a
\* match starting anywhere in s.
test(re, s) == Reach(re.tree, re.ic, s, 1..(Len(s) + 1)) # {}

\* The matches String.matchAll yields for a global pattern whose lastIndex
\* is li: each search resumes where the previous match ended, one further
\* after an empty match.
RECURSIVE matchAll(_, _, _)
matchAll(re, s, li) ==
  LET m == ExecFrom(re, s, li)
  IN IF li > Len(s) \/ m = << >> THEN << >>
     ELSE m \o matchAll(re, s, IF m[1].end = m[1].index THEN m[1].end + 1 ELSE m[1].end)

(***************************************************************************)
(* extractApiEndpoints                                                     *)
(***************************************************************************)
VerbAlt == Alt(<< Lit("get"), Lit("post"), Lit("put"), Lit("delete"), Lit("patch") >>)

\* The tail shared by three signatures:  \s*\(\s*['"`]([^'"`]+)['"`]
QuotedPathArg(g) ==
  << Star(Cls("space")), Lit("("), Star(Cls("space")),
     Cls("quote"), Grp(g, Plus(Cls("notquote"))), Cls("quote") >>

\* /(app|router)\.(get|post|put|delete|patch)\s*\(\s*['"`]([^'"`]+)['"`]/gi
ExpressRegex ==
  RegExp(Cat(<< Grp(1, Alt(<< Lit("app"), Lit("router") >>)), Lit("."), Grp(2, VerbAlt) >>
             \o QuotedPathArg(3)), TRUE)

\* /@(GetMapping|PostMapping|PutMapping|DeleteMapping|PatchMapping)\s*\(\s*
\*    (?:value\s*=\s*)?['"`]?([^'"`\)]+)['"`]?/gi
SpringRegex ==
  RegExp(Cat(<< Lit("@"),
                Grp(1, Alt(<< Lit("GetMapping"), Lit("PostMapping"), Lit("PutMapping"),
                              Lit("DeleteMapping"), Lit("PatchMapping") >>)),
                Star(Cls("space")), Lit("("), Star(Cls("space")),
                Opt(Cat(<< Lit("value"), Star(Cls("space")), Lit("="), Star(Cls("space")) >>)),
                Opt(Cls("quote")),
                Grp(2, Plus(Cls("notquoteparen"))),
                Opt(Cls("quote")) >>), TRUE)

\* /@app\.(get|post|put|delete|patch)\s*\(\s*['"`]([^'"`]+)['"`]/gi
FastApiRegex ==
  RegExp(Cat(<< Lit("@app."), Grp(1, VerbAlt) >> \o QuotedPathArg(2)), TRUE)

\* The action signature with a method group that may capture nothing.
DrfActionRegexAnyMethod ==
  RegExp(Cat(<< Lit("@action"), Star(Cls("space")), Lit("("), Star(Cls("space")),
                Star(Cls("dot")), Lit("methods"), Star(Cls("space")), Lit("="),
                Star(Cls("space")), Lit("["), Star(Cls("space")),
                Cls("quote"), Grp(1, Star(Cls("word"))), Cls("quote") >>), TRUE)

\* /@action\s*\(\s*.*methods\s*=\s*\[\s*['"`](\w+)['"`]/gi
DrfActionRegex ==
  RegExp(Cat(<< Lit("@action"), Star(Cls("space")), Lit("("), Star(Cls("space")),
                Star(Cls("dot")), Lit("methods"), Star(Cls("space")), Lit("="),
                Star(Cls("space")), Lit("["), Star(Cls("space")),
                Cls("quote"), Grp(1, Plus(Cls("word"))), Cls("quote") >>), TRUE)

\* /(GET|POST|PUT|DELETE|PATCH)\s*\(\s*['"`]([^'"`]+)['"`]/gi
GinRegex ==
  RegExp(Cat(<< Grp(1, Alt(<< Lit("GET"), Lit("POST"), Lit("PUT"), Lit("DELETE"),
                              Lit("PATCH") >>)) >> \o QuotedPathArg(2)), TRUE)

\* pathIndex 0 stands for the null of the action signature.
patterns ==
  << [regex |-> ExpressRegex, methodIndex |-> 2, pathIndex |-> 3],
     [regex |-> SpringRegex, methodIndex |-> 1, pathIndex |-> 2],
     [regex |-> FastApiRegex, methodIndex |-> 1, pathIndex |-> 2],
     [regex |-> DrfActionRegex, methodIndex |-> 1, pathIndex |-> 0],
     [regex |-> GinRegex, methodIndex |-> 1, pathIndex |-> 2] >>

Undefined == "undefined"

\* The descriptor with the 0-based index of forEach as its lineNumber.
EndpointZeroBased(pattern, match, line, index) ==
  [method |-> IF match.groups[pattern.methodIndex] = << >>
                 \/ match.groups[pattern.methodIndex][1] = ""
              THEN "UNKNOWN"
              ELSE toUpperCase(match.groups[pattern.methodIndex][1]),
   path |-> IF pattern.pathIndex = 0 THEN ""
            ELSE IF match.groups[pattern.pathIndex] = << >> THEN Undefined
            ELSE match.groups[pattern.pathIndex][1],
   handler |-> trim(line),
   lineNumber |-> index]

\* One descriptor of the result (lines 205-210).
Endpoint(pattern, match, line, index) ==
  [method |-> IF match.groups[pattern.methodIndex] = << >>
                 \/ match.groups[pattern.methodIndex][1] = ""
              THEN "UNKNOWN"
              ELSE toUpperCase(match.groups[pattern.methodIndex][1]),
   path |-> IF pattern.pathIndex = 0 THEN ""
            ELSE IF match.groups[pattern.pathIndex] = << >> THEN Undefined
            ELSE match.groups[pattern.pathIndex][1],
   handler |-> trim(line),
   lineNumber |-> index + 1]

\* The descriptors one signature adds for one line.  The pattern object is
\* created by the call that uses it, so matchAll starts at lastIndex 0.
SigEndpoints(pattern, line, index) ==
  LET matches == matchAll(pattern.regex, line, 0)
  IN [n \in 1..Len(matches) |-> Endpoint(pattern, matches[n], line, index)]

\* The body of lines.forEach: every signature of the table, in table order.
RECURSIVE LineEndpoints(_, _, _, _)
LineEndpoints(table, sig, line, index) ==
  IF sig > Len(table) THEN << >>
  ELSE SigEndpoints(table[sig], line, index) \o LineEndpoints(table, sig + 1, line, index)

\* The scan with its loops exchanged: every line through the first
\* signature, then every line through the second, and so on.
RECURSIVE SignatureLines(_, _, _)
SignatureLines(sig, lines, index) ==
  IF index >= Len(lines) THEN << >>
  ELSE SigEndpoints(patterns[sig], lines[index + 1], index)
         \o SignatureLines(sig, lines, index + 1)

ScanLinesBySignature(lines, index) ==
  SignatureLines(1, lines, index) \o SignatureLines(2, lines, index)
    \o SignatureLines(3, lines, index) \o SignatureLines(4, lines, index)
    \o SignatureLines(5, lines, index)

RECURSIVE ScanLines(_, _)
ScanLines(lines, index) ==
  IF index >= Len(lines) THEN << >>
  ELSE LineEndpoints(patterns, 1, lines[index + 1], index) \o ScanLines(lines, index + 1)

extractApiEndpoints(content, filename) == ScanLines(split(content), 0)

(***************************************************************************)
(* Inputs                                                                  *)
(***************************************************************************)
MaxFiles == 2
MaxPatterns == 2

RECURSIVE SeqsUpTo(_, _)
SeqsUpTo(S, n) ==
  IF n = 0 THEN {<< >>}
  ELSE SeqsUpTo(S, n - 1) \cup {Append(q, e) : q \in {r \in SeqsUpTo(S, n - 1) : Len(r) = n - 1}, e \in S}

\* Entries of an apiPatterns list; one of them does not compile.
BadPattern == "**/(api/**"
Patterns == {"**/api/**", "**/*Controller*", "**/controllers/**", BadPattern}

\* Two more configurations, of one pattern each, with a wildcard between two
\* literal parts; and the patterns above written with single stars.
ProbePatterns == {"src/**/*Controller*", "src/*/*Controller*"}
StarPatterns == {"*/api/*", "*/*Controller*", "*/controllers/*", "*/(api/*"}
AllPatterns == Patterns \cup ProbePatterns \cup StarPatterns
PatternLists == SeqsUpTo(Patterns, MaxPatterns) \cup {<< p >> : p \in ProbePatterns}

\* Patches: a hunk whose header, context line and removed line carry route
\* text beside its added lines, and a hunk adding one annotation.
MixedPatch ==
  "@@ -3,4 +3,4 @@ def get(self):\n app.post('/ctx', h)\n-app.delete('/old', h)\n+router.get('/a', f); router.get('/b', g);\n+const x = 1;"
SpringPatch == "@@ -1,2 +1,3 @@\n public class C {\n+    @PostMapping(\"/campaigns\")"
\* An added line two route patterns match, a blank added line and an added
\* line without a route.
DualPatch == "+app.get('/c', h); router.post('/d', h);\n+  \n+module.exports = router;"
\* An added class-level annotation the extractor has no signature for.
MappingPatch == "+@RequestMapping(\"/campaigns\")\n+public class CampaignController {"
PatchTexts == {MixedPatch, SpringPatch, DualPatch, MappingPatch}

ChangedFiles ==
  { [filename |-> "src/api/foo.js", status |-> "modified", patch |-> << MixedPatch >>],
    [filename |-> "src/apiary/foo.js", status |-> "added", patch |-> << >>],
    [filename |-> "src/other/foo.js", status |-> "removed", patch |-> << "" >>],
    [filename |-> "CampaignController.java", status |-> "added", patch |-> << SpringPatch >>],
    [filename |-> "README.md", status |-> "renamed", patch |-> << >>],
    [filename |-> "src/controllers/UserController.ts", status |-> "removed", patch |-> << >>] }

\* One more change set: paths that hold the word controllers as a directory
\* below the root, as the first segment and inside a longer segment, and a
\* file three directories deep.
ProbeFiles ==
  << [filename |-> "app/controllers/routes.js", status |-> "modified", patch |-> << DualPatch >>],
     [filename |-> "controllers/user.js", status |-> "added", patch |-> << >>],
     [filename |-> "src/mycontrollers/x.js", status |-> "modified", patch |-> << >>],
     [filename |-> "src/main/java/CampaignController.java", status |-> "added",
      patch |-> << MappingPatch >>] >>

FileLists == SeqsUpTo(ChangedFiles, MaxFiles) \cup {ProbeFiles}

\* File contents: the route line of scenario A on line 12, two chained calls
\* on one line, one call per line in other idioms, and text without routes.
RouteLine == "router.get('/users/:id', getUser);"
TwoCallLine == "router.get('/a', f); router.get('/b', g);"
Line12Content == "// routes\n\n\n\n\n\n\n\n\n\n\n" \o RouteLine
\* Lines ending in CR LF; one line carrying two signatures of the table;
\* and route constructs whose path is absent or not a quoted literal.
CrLfContent == "app.get('/a', h)\r\n\r\n  @DeleteMapping(value = \"/b\")\r\n"
TwoSignatureLine == "@action(methods=['post']) @GetMapping(\"/x\")"
TwoSignatureContent == "// two\n" \o TwoSignatureLine
AmbiguousContent == "@GetMapping\n@GetMapping()\nrouter.get(pathVar, handler)"
\* Calls and decorators whose method or path literal is empty.
EmptyArgsContent == "@action(detail=False, methods=[''])\napp.get('', h)\n@PutMapping('')"

Contents ==
  { Line12Content,
    TwoCallLine,
    "  r.GET(\"/ping\", h)\n  @PostMapping(\"/campaigns\")",
    "@action(detail=True, methods=['post'])\n@app.get(\"/items\")",
    "const x = 1;\n",
    "",
    CrLfContent,
    TwoSignatureContent,
    AmbiguousContent,
    EmptyArgsContent }

\* The tools that look up a configured service.
ServiceTools ==
  {"get_api_changes", "get_api_details", "get_recent_commits", "get_pull_requests",
   "analyze_api_endpoint", "compare_branches"}
\* Every case of the handler's switch; any other name takes the default.
KnownTools == ServiceTools \cup {"list_services", "get_test_template"}
ToolNames == KnownTools \cup {"no_such_tool"}
ServiceNames == {"User-Service", "billing"}

\* What octokit.repos.listCommits and octokit.pulls.list may resolve to.
CommitLists ==
  { << >>,
    << [sha |-> "9f2c1ab", commit |-> [message |-> "add campaigns route"]] >> }
PullLists ==
  { << >>,
    << [number |-> 7, title |-> "campaign routes", state |-> "open",
        head |-> [ref |-> "feature/campaigns"]] >> }

\* The inputs of the requests that are in flight together.
ConcurrentTools == {"get_api_changes", "analyze_api_endpoint"}
ConcurrentPatternLists ==
  { << "**/api/**" >>, << "**/controllers/**", "**/*Controller*" >>, << BadPattern >> }
ConcurrentFiles ==
  { << >>, << ProbeFiles >>,
    << << [filename |-> "src/api/foo.js", status |-> "modified", patch |-> << MixedPatch >>] >> >> }
ConcurrentContents == {Line12Content, TwoSignatureContent}

(***************************************************************************)
(* detectApiChanges                                                        *)
(***************************************************************************)
\* /(@(Get|Post|Put|Delete|Patch|RequestMapping))/i
SpringRoute ==
  RegExp(Grp(1, Cat(<< Lit("@"),
                       Grp(2, Alt(<< Lit("Get"), Lit("Post"), Lit("Put"), Lit("Delete"),
                                     Lit("Patch"), Lit("RequestMapping") >>)) >>)), TRUE)

\* /app\.(get|post|put|delete|patch)\s*\(/i
ExpressRoute ==
  RegExp(Cat(<< Lit("app."), Grp(1, VerbAlt), Star(Cls("space")), Lit("(") >>), TRUE)

\* /router\.(get|post|put|delete|patch)\s*\(/i
RouterRoute ==
  RegExp(Cat(<< Lit("router."), Grp(1, VerbAlt), Star(Cls("space")), Lit("(") >>), TRUE)

\* /@(api_view|action)\s*\(/i
DjangoRoute ==
  RegExp(Cat(<< Lit("@"), Grp(1, Alt(<< Lit("api_view"), Lit("action") >>)),
                Star(Cls("space")), Lit("(") >>), TRUE)

\* /def\s+(get|post|put|delete|patch)\s*\(/i
PythonRoute ==
  RegExp(Cat(<< Lit("def"), Plus(Cls("space")), Grp(1, VerbAlt),
                Star(Cls("space")), Lit("(") >>), TRUE)

\* /func\s+\(.*\)\s+(Get|Post|Put|Delete|Patch)/i
GoRoute ==
  RegExp(Cat(<< Lit("func"), Plus(Cls("space")), Lit("("), Star(Cls("dot")), Lit(")"),
                Plus(Cls("space")), Grp(1, VerbAlt) >>), TRUE)

\* /\[Http(Get|Post|Put|Delete|Patch)\]/i
AspNetRoute ==
  RegExp(Cat(<< Lit("[Http"), Grp(1, VerbAlt), Lit("]") >>), TRUE)

routePatterns ==
  << SpringRoute, ExpressRoute, RouterRoute, DjangoRoute, PythonRoute, GoRoute, AspNetRoute >>

\* pattern.replace(/\*/g, ".*")
RECURSIVE replaceStars(_)
replaceStars(pattern) ==
  IF Len(pattern) = 0 THEN ""
  ELSE (IF Ch(pattern, 1) = "*" THEN ".*" ELSE Ch(pattern, 1))
         \o replaceStars(SubSeq(pattern, 2, Len(pattern)))

\* new RegExp(source) throws a SyntaxError for a source with an unbalanced
\* parenthesis or an unterminated character class.
RECURSIVE ParenDepths(_, _, _)
ParenDepths(source, i, depth) ==
  IF i > Len(source) THEN << depth >>
  ELSE << depth >> \o ParenDepths(source, i + 1,
            IF Ch(source, i) = "(" THEN depth + 1
            ELSE IF Ch(source, i) = ")" THEN depth - 1 ELSE depth)

SyntaxError(source) ==
  LET depths == ParenDepths(source, 1, 0)
  IN \/ depths[Len(depths)] # 0
     \/ \E n \in 1..Len(depths) : depths[n] < 0
     \/ \E i \in 1..Len(source) :
          /\ Ch(source, i) = "["
          /\ ~\E j \in (i + 1)..Len(source) : Ch(source, j) = "]"

\* The tree of a source made of literal characters, "." and "*" after an
\* atom (the sources the path patterns of the model compile to).
RECURSIVE ParseAtoms(_, _)
ParseAtoms(source, i) ==
  IF i > Len(source) THEN << >>
  ELSE LET atom == IF Ch(source, i) = "." THEN Cls("dot") ELSE Lit(Ch(source, i))
       IN IF i < Len(source) /\ Ch(source, i + 1) = "*"
          THEN << Star(atom) >> \o ParseAtoms(source, i + 2)
          ELSE << atom >> \o ParseAtoms(source, i + 1)

NewRegExp(source) == RegExp(Cat(ParseAtoms(source, 1)), FALSE)

\* String.includes
Includes(s, w) == \E i \in 1..(Len(s) - Len(w) + 1) : SubSeq(s, i, i + Len(w) - 1) = w

RECURSIVE Keyword(_)
Keyword(pattern) ==
  IF Len(pattern) = 0 THEN ""
  ELSE (IF Ch(pattern, 1) \in {"*", "/"} THEN "" ELSE Ch(pattern, 1))
         \o Keyword(SubSeq(pattern, 2, Len(pattern)))

\* The pattern test as a search for the pattern's word anywhere in the path,
\* separators dropped, and as a search for the untranslated pattern.
PatternMatchesKeyword(pattern, filename) == Includes(filename, Keyword(pattern))
PatternMatchesUntranslated(pattern, filename) == Includes(filename, pattern)

\* The pattern test of a path glob: ** matches any run of characters, * any
\* run of characters other than the separator, anywhere in the path.
RECURSIVE SegmentsFrom(_, _)
SegmentsFrom(pattern, s) ==
  IF Len(pattern) = 0 THEN TRUE
  ELSE IF Len(pattern) >= 2 /\ SubSeq(pattern, 1, 2) = "**"
  THEN \E k \in 0..Len(s) :
         SegmentsFrom(SubSeq(pattern, 3, Len(pattern)), SubSeq(s, k + 1, Len(s)))
  ELSE IF Ch(pattern, 1) = "*"
  THEN \E k \in 0..Len(s) :
         /\ \A j \in 1..k : Ch(s, j) # "/"
         /\ SegmentsFrom(SubSeq(pattern, 2, Len(pattern)), SubSeq(s, k + 1, Len(s)))
  ELSE /\ Len(s) > 0
       /\ Ch(s, 1) = Ch(pattern, 1)
       /\ SegmentsFrom(SubSeq(pattern, 2, Len(pattern)), SubSeq(s, 2, Len(s)))

PatternMatchesSegments(pattern, filename) ==
  \E i \in 1..(Len(filename) + 1) : SegmentsFrom(pattern, SubSeq(filename, i, Len(filename)))

\* The callback of apiPatterns.some (lines 129-132) on one pattern: does
\* new RegExp throw, and if not, does the expression test true on the path.
\* Both are tabulated once over the patterns and paths of the inputs.
FileNames == {f.filename : f \in ChangedFiles} \cup {ProbeFiles[n].filename : n \in DOMAIN ProbeFiles}
ThrowsTable == [p \in AllPatterns |-> SyntaxError(replaceStars(p))]
TestTable ==
  [p \in AllPatterns |-> [f \in FileNames |-> test(NewRegExp(replaceStars(p)), f)]]

PatternThrows(pattern) == ThrowsTable[pattern]
PatternMatches(pattern, filename) == TestTable[pattern][filename]

\* The pattern loop with apiPatterns.every in place of apiPatterns.some.
RECURSIVE EveryPattern(_, _, _)
EveryPattern(apiPatterns, j, filename) ==
  IF j > Len(apiPatterns) THEN "true"
  ELSE IF PatternThrows(apiPatterns[j]) THEN "throw"
  ELSE IF ~PatternMatches(apiPatterns[j], filename) THEN "false"
  ELSE EveryPattern(apiPatterns, j + 1, filename)

\* apiPatterns.some(...): "true" at the first pattern that matches, "throw"
\* at a pattern that does not compile when no earlier one matched.
RECURSIVE SomePattern(_, _, _)
SomePattern(apiPatterns, j, filename) ==
  IF j > Len(apiPatterns) THEN "false"
  ELSE IF PatternThrows(apiPatterns[j]) THEN "throw"
  ELSE IF PatternMatches(apiPatterns[j], filename) THEN "true"
  ELSE SomePattern(apiPatterns, j + 1, filename)

\* files.filter(...): the kept files, or the exception of the callback.
RECURSIVE FilterFiles(_, _, _)
FilterFiles(files, n, apiPatterns) ==
  IF n > Len(files) THEN [threw |-> FALSE, value |-> << >>]
  ELSE LET keep == SomePattern(apiPatterns, 1, files[n].filename)
           rest == FilterFiles(files, n + 1, apiPatterns)
       IN IF keep = "throw" \/ rest.threw THEN [threw |-> TRUE, value |-> << >>]
          ELSE [threw |-> FALSE,
                value |-> (IF keep = "true" THEN << files[n] >> ELSE << >>) \o rest.value]

\* The inner loop (lines 154-159): does some route pattern match the line.
RECURSIVE FirstRoute(_, _)
FirstRoute(line, j) ==
  IF j > Len(routePatterns) THEN 0
  ELSE IF test(routePatterns[j], line) THEN j
  ELSE FirstRoute(line, j + 1)

\* The loop over the lines of a patch without the break of line 157: a
\* line is pushed once for every route pattern that matches it.
RECURSIVE ScanPatchEveryPattern(_, _)
ScanPatchEveryPattern(lines, n) ==
  IF n > Len(lines) THEN << >>
  ELSE LET hits == Cardinality({j \in 1..Len(routePatterns) : test(routePatterns[j], lines[n])})
       IN [k \in 1..hits |-> trim(lines[n])] \o ScanPatchEveryPattern(lines, n + 1)

\* The loop over the lines of a patch (lines 142-160).
RECURSIVE ScanPatch(_, _)
ScanPatch(lines, n) ==
  IF n > Len(lines) THEN << >>
  ELSE (IF FirstRoute(lines[n], 1) # 0 THEN << trim(lines[n]) >> ELSE << >>)
         \o ScanPatch(lines, n + 1)

\* The scan of each patch text of the inputs, tabulated once.
PatchChanges == [text \in PatchTexts |-> ScanPatch(split(text), 1)]

\* A file's patch is << >> when absent and << text >> when present.
Record(file) ==
  [filename |-> file.filename,
   status |-> file.status,
   changes |-> IF file.patch # << >> /\ file.patch[1] # ""
               THEN PatchChanges[file.patch[1]] ELSE << >>,
   isApiFile |-> TRUE]

detectApiChanges(files, apiPatterns) ==
  LET kept == FilterFiles(files, 1, apiPatterns)
  IN IF kept.threw THEN kept
     ELSE [threw |-> FALSE, value |-> [n \in 1..Len(kept.value) |-> Record(kept.value[n])]]

(***************************************************************************)
(* The server: SERVICES and the CallTool requests in flight.  Every        *)
(* invocation of the handler has its own locals; the only module-level     *)
(* state the handlers read is SERVICES.                                    *)
(***************************************************************************)
MaxInFlight == 2
Requests == 1..MaxInFlight

VARIABLES
  SERVICES,   \* the configured services, fixed when the process starts
  requests    \* per invocation of the handler: phase, call, fetched, response

vars == << SERVICES, requests >>

\* The request a client that waits for each answer has in flight.
phase == requests[1].phase          \* "idle", "awaiting" (the remote client), "done"
call == requests[1].call            \* name and arguments of the request
fetched == requests[1].fetched      \* what the remote client returned to it
response == requests[1].response    \* the result the handler returned

NoCall == [name |-> "", valid |-> FALSE, serviceName |-> ""]
NoData == [files |-> << >>, content |-> << >>, commits |-> << >>, pulls |-> << >>]
NoResponse == [kind |-> "none", text |-> "", body |-> << >>]
NoRequest == [phase |-> "idle", call |-> NoCall, fetched |-> NoData, response |-> NoResponse]

RECURSIVE toLowerCase(_)
toLowerCase(s) ==
  IF Len(s) = 0 THEN "" ELSE Fold(Ch(s, 1)) \o toLowerCase(SubSeq(s, 2, Len(s)))

\* A lookup that ignores the name and answers with the first service.
getServiceConfigFirst(services, serviceName) ==
  IF services = << >> THEN << >> ELSE << Head(services) >>

\* SERVICES.find(...): << >> for undefined, << service >> otherwise.
getServiceConfig(services, serviceName) ==
  LET hits == SelectSeq(services, LAMBDA sv : toLowerCase(sv.name) = toLowerCase(serviceName))
  IN IF hits = << >> THEN << >> ELSE << Head(hits) >>

Init ==
  /\ SERVICES \in {<< [name |-> "user-service", automationRepoPath |-> "/automation/user-service",
                     apiPatterns |-> pl] >> : pl \in PatternLists}
  /\ requests = [r \in Requests |-> NoRequest]

\* The handler returns: kind "json" with the serialized object as body, or
\* one of the plain texts ("notfound", "unknown", "error") with its detail.
Respond(req, kind, text, body) ==
  [req EXCEPT !.phase = "done", !.response = [kind |-> kind, text |-> text, body |-> body]]

\* The handler up to its first await (lines 402-478, 513-527, 554-568,
\* 599-613, 647-667, 690-866, 868-894): an unknown name and an unknown
\* service are answered at once, list_services and get_test_template
\* return without calling the remote client, arguments the schema rejects
\* throw into the catch, anything else calls the remote client.
CallTool(r, name, valid, serviceName) ==
  /\ requests[r].phase \in {"idle", "done"}
  /\ LET req == [phase |-> "awaiting",
                 call |-> [name |-> name, valid |-> valid, serviceName |-> serviceName],
                 fetched |-> NoData,
                 response |-> NoResponse]
     IN requests' = [requests EXCEPT ![r] =
          IF name \notin KnownTools THEN Respond(req, "unknown", name, << >>)
          ELSE IF name = "list_services"
               THEN Respond(req, "json", "",
                      IF Len(SERVICES) = 0 THEN [error |-> "No services configured"]
                      ELSE [services |-> [k \in 1..Len(SERVICES) |->
                                            [name |-> SERVICES[k].name,
                                             automationPath |-> SERVICES[k].automationRepoPath,
                                             apiPatterns |-> SERVICES[k].apiPatterns]]])
          ELSE IF ~valid THEN Respond(req, "error", "ZodError", << >>)
          ELSE IF name = "get_test_template"
               THEN LET service == getServiceConfig(SERVICES, serviceName)
                    IN Respond(req, "json", "",
                         [service |-> serviceName,
                          automationRepoPath |-> IF service = << >> THEN "/path/to/automation"
                                                 ELSE service[1].automationRepoPath])
          ELSE IF getServiceConfig(SERVICES, serviceName) = << >>
               THEN Respond(req, "notfound", serviceName, << >>)
          ELSE req]
  /\ UNCHANGED SERVICES

\* The comparison kept in one place for all invocations: an invocation
\* works on the files another invocation received, when there are any.
CompareResolvedShared(r, files) ==
  /\ requests[r].phase = "awaiting" /\ requests[r].call.name = "get_api_changes"
  /\ LET others == {q \in Requests \ {r} : requests[q].fetched.files # << >>}
         comparison == IF others = {} THEN files
                       ELSE requests[CHOOSE q \in others : TRUE].fetched.files
         service == getServiceConfig(SERVICES, requests[r].call.serviceName)[1]
         apiChanges == detectApiChanges(IF comparison = << >> THEN << >> ELSE comparison[1],
                                        service.apiPatterns)
         req == [requests[r] EXCEPT !.fetched.files = files]
     IN requests' = [requests EXCEPT ![r] =
          IF apiChanges.threw THEN Respond(req, "error", "SyntaxError", << >>)
          ELSE Respond(req, "json", "",
                       [service |-> service.name, apiChanges |-> apiChanges.value])]
  /\ UNCHANGED SERVICES

\* compareCommits resolves for get_api_changes (lines 480-510); files is
\* << >> when the comparison has no files field and << list >> otherwise.
CompareResolved(r, files) ==
  /\ requests[r].phase = "awaiting" /\ requests[r].call.name = "get_api_changes"
  /\ LET service == getServiceConfig(SERVICES, requests[r].call.serviceName)[1]
         apiChanges == detectApiChanges(IF files = << >> THEN << >> ELSE files[1],
                                        service.apiPatterns)
         req == [requests[r] EXCEPT !.fetched.files = files]
     IN requests' = [requests EXCEPT ![r] =
          IF apiChanges.threw THEN Respond(req, "error", "SyntaxError", << >>)
          ELSE Respond(req, "json", "",
                       [service |-> service.name, apiChanges |-> apiChanges.value])]
  /\ UNCHANGED SERVICES

\* The pattern loop of compare_branches made to pass over a pattern that
\* does not compile instead of throwing.
RECURSIVE BranchSomePatternSkipInvalid(_, _, _)
BranchSomePatternSkipInvalid(apiPatterns, j, filename) ==
  IF j > Len(apiPatterns) THEN "false"
  ELSE IF PatternThrows(apiPatterns[j])
       THEN BranchSomePatternSkipInvalid(apiPatterns, j + 1, filename)
  ELSE IF PatternMatches(apiPatterns[j], filename) THEN "true"
  ELSE BranchSomePatternSkipInvalid(apiPatterns, j + 1, filename)

\* service.apiPatterns.some(...) of compare_branches (lines 897-900).
RECURSIVE BranchSomePattern(_, _, _)
BranchSomePattern(apiPatterns, j, filename) ==
  IF j > Len(apiPatterns) THEN "false"
  ELSE IF PatternThrows(apiPatterns[j]) THEN "throw"
  ELSE IF PatternMatches(apiPatterns[j], filename) THEN "true"
  ELSE BranchSomePattern(apiPatterns, j + 1, filename)

\* comparison.files?.filter(...) of compare_branches (lines 896-901), for a
\* comparison that has files.
RECURSIVE BranchApiFiles(_, _, _)
BranchApiFiles(files, n, apiPatterns) ==
  IF n > Len(files) THEN [threw |-> FALSE, value |-> << >>]
  ELSE LET keep == BranchSomePattern(apiPatterns, 1, files[n].filename)
           rest == BranchApiFiles(files, n + 1, apiPatterns)
       IN IF keep = "throw" \/ rest.threw THEN [threw |-> TRUE, value |-> << >>]
          ELSE [threw |-> FALSE,
                value |-> (IF keep = "true" THEN << files[n] >> ELSE << >>) \o rest.value]

\* compareCommits resolves for compare_branches (lines 896-939).
BranchesResolved(r, files) ==
  /\ requests[r].phase = "awaiting" /\ requests[r].call.name = "compare_branches"
  /\ LET service == getServiceConfig(SERVICES, requests[r].call.serviceName)[1]
         apiFiles == BranchApiFiles(IF files = << >> THEN << >> ELSE files[1], 1,
                                    service.apiPatterns)
         req == [requests[r] EXCEPT !.fetched.files = files]
     IN requests' = [requests EXCEPT ![r] =
          IF files # << >> /\ apiFiles.threw THEN Respond(req, "error", "SyntaxError", << >>)
          ELSE Respond(req, "json", "",
                 [service |-> service.name,
                  totalFilesChanged |-> IF files = << >> THEN 0 ELSE Len(files[1]),
                  apiFilesChanged |-> Len(apiFiles.value),
                  apiFiles |-> IF files = << >> THEN << >>
                               ELSE << [n \in 1..Len(apiFiles.value) |->
                                          [filename |-> apiFiles.value[n].filename,
                                           status |-> apiFiles.value[n].status]] >>])]
  /\ UNCHANGED SERVICES

\* extractApiEndpoints of every content the remote client may return.
Extracted == [content \in Contents |-> extractApiEndpoints(content, "filePath")]

\* getFileContent resolves for analyze_api_endpoint (lines 669-685).
ContentResolved(r, content) ==
  /\ requests[r].phase = "awaiting" /\ requests[r].call.name = "analyze_api_endpoint"
  /\ LET service == getServiceConfig(SERVICES, requests[r].call.serviceName)[1]
         endpoints == Extracted[content]
         req == [requests[r] EXCEPT !.fetched.content = << content >>]
     IN requests' = [requests EXCEPT ![r] =
          Respond(req, "json", "", [service |-> service.name, endpoints |-> endpoints,
                                    totalEndpoints |-> Len(endpoints)])]
  /\ UNCHANGED SERVICES

\* getFileContent resolves for get_api_details (lines 528-551).
DetailsResolved(r, content) ==
  /\ requests[r].phase = "awaiting" /\ requests[r].call.name = "get_api_details"
  /\ LET service == getServiceConfig(SERVICES, requests[r].call.serviceName)[1]
         req == [requests[r] EXCEPT !.fetched.content = << content >>]
     IN requests' = [requests EXCEPT ![r] =
          Respond(req, "json", "", [service |-> service.name, content |-> content])]
  /\ UNCHANGED SERVICES

\* octokit.repos.listCommits resolves for get_recent_commits (lines 569-596).
CommitsResolved(r, commits) ==
  /\ requests[r].phase = "awaiting" /\ requests[r].call.name = "get_recent_commits"
  /\ LET service == getServiceConfig(SERVICES, requests[r].call.serviceName)[1]
         req == [requests[r] EXCEPT !.fetched.commits = commits]
     IN requests' = [requests EXCEPT ![r] =
          Respond(req, "json", "",
                  [service |-> service.name,
                   commits |-> [n \in 1..Len(commits) |->
                                  [sha |-> commits[n].sha,
                                   message |-> commits[n].commit.message]]])]
  /\ UNCHANGED SERVICES

\* octokit.pulls.list resolves for get_pull_requests (lines 614-644).
PullsResolved(r, prs) ==
  /\ requests[r].phase = "awaiting" /\ requests[r].call.name = "get_pull_requests"
  /\ LET service == getServiceConfig(SERVICES, requests[r].call.serviceName)[1]
         req == [requests[r] EXCEPT !.fetched.pulls = prs]
     IN requests' = [requests EXCEPT ![r] =
          Respond(req, "json", "",
                  [service |-> service.name,
                   pullRequests |-> [n \in 1..Len(prs) |->
                                       [number |-> prs[n].number,
                                        title |-> prs[n].title,
                                        state |-> prs[n].state,
                                        headBranch |-> prs[n].head.ref]]])]
  /\ UNCHANGED SERVICES

\* The remote client rejects and nothing catches it: the rejection leaves
\* the handler as a fault of the request instead of a result.
RemoteRejectedUncaught(r) ==
  /\ requests[r].phase = "awaiting"
  /\ requests' = [requests EXCEPT ![r] = Respond(@, "fault", "RequestError", << >>)]
  /\ UNCHANGED SERVICES

\* The remote client rejects: the awaited call throws into the catch.
RemoteRejected(r) ==
  /\ requests[r].phase = "awaiting"
  /\ requests' = [requests EXCEPT ![r] = Respond(@, "error", "RequestError", << >>)]
  /\ UNCHANGED SERVICES

\* A client that waits for each answer before it sends the next request.
Next ==
  \/ \E name \in ToolNames, valid \in BOOLEAN, serviceName \in ServiceNames :
       CallTool(1, name, valid, serviceName)
  \/ \E files \in {<< >>} \cup {<< fl >> : fl \in FileLists} : CompareResolved(1, files)
  \/ \E files \in {<< >>} \cup {<< fl >> : fl \in FileLists} : BranchesResolved(1, files)
  \/ \E content \in Contents : ContentResolved(1, content)
  \/ \E content \in Contents : DetailsResolved(1, content)
  \/ \E commits \in CommitLists : CommitsResolved(1, commits)
  \/ \E prs \in PullLists : PullsResolved(1, prs)
  \/ RemoteRejected(1)

Spec == Init /\ [][Next]_vars

\* Several requests in flight: the transport hands every request to the
\* handler as it arrives, and the awaits resolve in any order.
InitConcurrent ==
  /\ SERVICES \in {<< [name |-> "user-service", automationRepoPath |-> "/automation/user-service",
                     apiPatterns |-> pl] >> : pl \in ConcurrentPatternLists}
  /\ requests = [r \in Requests |-> NoRequest]

NextConcurrent ==
  \E r \in Requests :
    \/ \E name \in ConcurrentTools : CallTool(r, name, TRUE, "User-Service")
    \/ \E files \in ConcurrentFiles : CompareResolved(r, files)
    \/ \E content \in ConcurrentContents : ContentResolved(r, content)
    \/ RemoteRejected(r)

SpecConcurrent == InitConcurrent /\ [][NextConcurrent]_vars

(***************************************************************************)
(* Properties                                                              *)
(***************************************************************************)
ApiPatterns == SERVICES[1].apiPatterns

\* The files the remote client returned to the current request.
FetchedFiles == IF fetched.files = << >> THEN << >> ELSE fetched.files[1]

\* The current request got its data and the handler ran the core function
\* on it: it either returned the tool's object or threw on a pattern.
Scanned(tool) ==
  /\ phase = "done" /\ call.name = tool
  /\ response.kind = "json" \/ (response.kind = "error" /\ response.text = "SyntaxError")

Returned(tool) == phase = "done" /\ call.name = tool /\ response.kind = "json"

Analyzed(content) == Returned("analyze_api_endpoint") /\ fetched.content = << content >>

AllValid(apiPatterns) == \A j \in 1..Len(apiPatterns) : ~PatternThrows(apiPatterns[j])

\* C1: for the content whose line 12 is the route line of scenario A and
\* whose other lines hold no route, extractApiEndpoints returns exactly one
\* descriptor: GET, /users/:id, the line as handler, lineNumber 12.
C1_ScenarioAOneDescriptor ==
  Analyzed(Line12Content) =>
    response.body.endpoints =
      << [method |-> "GET", path |-> "/users/:id", handler |-> RouteLine, lineNumber |-> 12] >>

\* How many entries of changes equal entry.
CountOf(entry, changes) == Cardinality({k \in 1..Len(changes) : changes[k] = entry})

\* C2: a line with two chained router.get calls yields exactly two
\* descriptors from extractApiEndpoints, and at most one entry in the
\* changes of a record of detectApiChanges whose patch holds that line.
C2_TwoCallsTwoDescriptors ==
  /\ Analyzed(TwoCallLine) => Len(response.body.endpoints) = 2
  /\ Returned("get_api_changes") =>
       \A n \in 1..Len(response.body.apiChanges) :
         CountOf("+" \o TwoCallLine, response.body.apiChanges[n].changes) <= 1

\* C3: one changed file named CampaignController.java whose patch adds the
\* line @PostMapping("/campaigns"), with apiPatterns including
\* **/*Controller*, gives exactly one record, isApiFile true, whose changes
\* hold the trimmed annotation line.
CampaignFile ==
  [filename |-> "CampaignController.java", status |-> "added", patch |-> << SpringPatch >>]

C3_ScenarioBOneRecord ==
  ( /\ Scanned("get_api_changes")
    /\ FetchedFiles = << CampaignFile >>
    /\ AllValid(ApiPatterns)
    /\ \E j \in 1..Len(ApiPatterns) : ApiPatterns[j] = "**/*Controller*" )
  => /\ response.kind = "json"
     /\ Len(response.body.apiChanges) = 1
     /\ response.body.apiChanges[1].isApiFile
     /\ CountOf("+    @PostMapping(\"/campaigns\")", response.body.apiChanges[1].changes) = 1

\* The file names a path-filtering tool returned, in order.
Filtered == Returned("get_api_changes") \/ Returned("compare_branches")

KeptNames ==
  IF call.name = "get_api_changes"
  THEN [n \in 1..Len(response.body.apiChanges) |-> response.body.apiChanges[n].filename]
  ELSE IF response.body.apiFiles = << >> THEN << >>
  ELSE [n \in 1..Len(response.body.apiFiles[1]) |-> response.body.apiFiles[1][n].filename]

Names(files) == [n \in 1..Len(files) |-> files[n].filename]
InSeq(x, q) == \E n \in 1..Len(q) : q[n] = x

\* C4, as stated: path src/apiary/foo.js matches pattern **/api/**.
C4_ApiaryMatches ==
  (Filtered /\ ApiPatterns = << "**/api/**" >> /\ InSeq("src/apiary/foo.js", Names(FetchedFiles)))
  => InSeq("src/apiary/foo.js", KeptNames)

\* C4, amended: path src/apiary/foo.js does not match pattern **/api/**,
\* whose literal part /api/ (separators included) must occur in the path: a
\* tool filtering with that one pattern never returns the file.
C4_ApiaryNotMatched ==
  (Filtered /\ ApiPatterns = << "**/api/**" >>) => ~InSeq("src/apiary/foo.js", KeptNames)

C4_Witness ==
  Filtered /\ ApiPatterns = << "**/api/**" >> /\ InSeq("src/apiary/foo.js", Names(FetchedFiles))

\* C5: path src/api/foo.js matches pattern **/api/** and path
\* src/other/foo.js does not: filtering with that one pattern keeps every
\* occurrence of the first file and never returns the second.
C5_ApiMatchesOtherNot ==
  (Filtered /\ ApiPatterns = << "**/api/**" >>)
  => /\ InSeq("src/api/foo.js", Names(FetchedFiles)) => InSeq("src/api/foo.js", KeptNames)
     /\ ~InSeq("src/other/foo.js", KeptNames)

C5_Witness ==
  /\ Filtered /\ ApiPatterns = << "**/api/**" >>
  /\ InSeq("src/api/foo.js", Names(FetchedFiles))
  /\ InSeq("src/other/foo.js", Names(FetchedFiles))
  /\ KeptNames = << "src/api/foo.js" >>

\* The file's path matches at least one pattern of the list that compiles.
MatchesSome(file, apiPatterns) ==
  \E j \in 1..Len(apiPatterns) :
    ~PatternThrows(apiPatterns[j]) /\ PatternMatches(apiPatterns[j], file.filename)

\* C6: a pattern that does not compile is treated as never matching: the
\* scan does not throw, the call is not answered with an error, and the
\* files the valid patterns match are returned.
C6_BadPatternFailsClosed ==
  ((Scanned("get_api_changes") \/ Scanned("compare_branches")) /\ fetched.files # << >>)
  => /\ response.kind = "json"
     /\ KeptNames = Names(SelectSeq(FetchedFiles, LAMBDA f : MatchesSome(f, ApiPatterns)))

\* The file of the request with the given name (names are unique in it).
FileNamed(name) == FetchedFiles[CHOOSE n \in 1..Len(FetchedFiles) : FetchedFiles[n].filename = name]

\* C7: every entry of a record's changes is the trimmed text of a patch
\* line that begins with "+"; removed lines, context lines and hunk headers
\* are never recorded.
C7_OnlyAddedLines ==
  Returned("get_api_changes") =>
    \A n \in 1..Len(response.body.apiChanges) :
      LET record == response.body.apiChanges[n]
          lines == split(FileNamed(record.filename).patch[1])
      IN \A k \in 1..Len(record.changes) :
           \E i \in 1..Len(lines) : Ch(lines[i], 1) = "+" /\ trim(lines[i]) = record.changes[k]

\* C8: every changed file whose path matches a pattern and whose patch is
\* absent or empty gets exactly one record, isApiFile true, changes empty.
C8_PatchlessFileOneRecord ==
  Scanned("get_api_changes") =>
    \A n \in 1..Len(FetchedFiles) :
      LET file == FetchedFiles[n]
      IN (MatchesSome(file, ApiPatterns) /\ file.patch \in {<< >>, << "" >>})
         => /\ response.kind = "json"
            /\ Cardinality({k \in 1..Len(response.body.apiChanges) :
                              response.body.apiChanges[k].filename = file.filename})
                 = Cardinality({m \in 1..Len(FetchedFiles) : FetchedFiles[m] = file})
            /\ \A k \in 1..Len(response.body.apiChanges) :
                 response.body.apiChanges[k].filename = file.filename
                 => /\ response.body.apiChanges[k].isApiFile
                    /\ response.body.apiChanges[k].changes = << >>

\* C9: when detectApiChanges returns, its records are exactly the input
\* files whose path matches at least one pattern, one each, in input order,
\* filename and status copied, isApiFile true; no pattern, no record.
Identity(r) == [filename |-> r.filename, status |-> r.status]

C9_RecordsAreMatchingFiles ==
  Returned("get_api_changes") =>
    LET records == response.body.apiChanges
        matching == SelectSeq(FetchedFiles, LAMBDA f : MatchesSome(f, ApiPatterns))
    IN /\ [n \in 1..Len(records) |-> Identity(records[n])]
            = [n \in 1..Len(matching) |-> Identity(matching[n])]
       /\ \A n \in 1..Len(records) : records[n].isApiFile
       /\ ApiPatterns = << >> => records = << >>
       /\ ~InSeq("README.md", KeptNames)

C9_Witness ==
  /\ Returned("get_api_changes")
  /\ ApiPatterns = << "**/api/**", "**/controllers/**" >>
  /\ Names(FetchedFiles) = << "README.md", "src/controllers/UserController.ts" >>
  /\ KeptNames = << "src/controllers/UserController.ts" >>

\* C11: every descriptor extractApiEndpoints returns has a lineNumber n
\* between 1 and the number of lines of the content, and its handler is the
\* trimmed n-th line of the content split on line feeds.
C11_LineNumbersPointAtHandlers ==
  Returned("analyze_api_endpoint") =>
    LET lines == split(fetched.content[1])
        endpoints == response.body.endpoints
    IN \A k \in 1..Len(endpoints) :
         /\ endpoints[k].lineNumber \in 1..Len(lines)
         /\ endpoints[k].handler = trim(lines[endpoints[k].lineNumber])

C11_Witness ==
  /\ Analyzed(CrLfContent)
  /\ Len(response.body.endpoints) = 3
  /\ response.body.endpoints[1].lineNumber = 1
  /\ response.body.endpoints[3] =
       [method |-> "DELETEMAPPING", path |-> "/b",
        handler |-> "@DeleteMapping(value = \"/b\")", lineNumber |-> 3]

\* The descriptors of a result that belong to line n, in result order.
OfLine(endpoints, n) == SelectSeq(endpoints, LAMBDA d : d.lineNumber = n)

\* C12: in the list extractApiEndpoints returns, lineNumber never decreases,
\* and the descriptors of one line are those of the Express signature, then
\* of the Spring, FastAPI, DRF action and Gin signatures, in that order.
C12_LineThenSignatureOrder ==
  Returned("analyze_api_endpoint") =>
    LET lines == split(fetched.content[1])
        endpoints == response.body.endpoints
    IN /\ \A a, b \in 1..Len(endpoints) :
            a < b => endpoints[a].lineNumber <= endpoints[b].lineNumber
       /\ \A n \in 1..Len(lines) :
            OfLine(endpoints, n) =
              SigEndpoints(patterns[1], lines[n], n - 1)
                \o SigEndpoints(patterns[2], lines[n], n - 1)
                \o SigEndpoints(patterns[3], lines[n], n - 1)
                \o SigEndpoints(patterns[4], lines[n], n - 1)
                \o SigEndpoints(patterns[5], lines[n], n - 1)

C12_Witness ==
  /\ Analyzed(TwoSignatureContent)
  /\ Len(response.body.endpoints) = 2
  /\ response.body.endpoints[1].method = "GETMAPPING"
  /\ response.body.endpoints[2].method = "POST"
  /\ response.body.endpoints[1].lineNumber = 2
  /\ response.body.endpoints[2].lineNumber = 2

HttpVerbs == {"GET", "POST", "PUT", "DELETE", "PATCH"}

\* C13: every descriptor extractApiEndpoints returns has a method that is
\* one of GET, POST, PUT, DELETE, PATCH or the string UNKNOWN, whichever
\* signature of the table produced it.
C13_MethodIsVerbOrUnknown ==
  Returned("analyze_api_endpoint") =>
    \A k \in 1..Len(response.body.endpoints) :
      response.body.endpoints[k].method \in HttpVerbs \cup {"UNKNOWN"}

\* The lines of a file's patch; none when the patch is absent or empty.
PatchLines(file) ==
  IF file.patch = << >> \/ file.patch[1] = "" THEN << >> ELSE split(file.patch[1])

\* The k-th smallest element of a set of numbers.
Nth(S, k) == CHOOSE i \in S : Cardinality({j \in S : j < i}) = k - 1

\* C14: each patch line contributes at most one entry to changes: changes
\* is never longer than the patch has lines, and its entries are the trimmed
\* texts of distinct patch lines, in patch order.
C14_OneEntryPerLineInOrder ==
  Returned("get_api_changes") =>
    \A n \in 1..Len(response.body.apiChanges) :
      LET changes == response.body.apiChanges[n].changes
          lines == PatchLines(FileNamed(response.body.apiChanges[n].filename))
      IN /\ Len(changes) <= Len(lines)
         /\ \E S \in SUBSET (1..Len(lines)) :
              /\ Cardinality(S) = Len(changes)
              /\ \A k \in 1..Len(changes) : changes[k] = trim(lines[Nth(S, k)])

C14_Witness ==
  /\ Returned("get_api_changes")
  /\ FetchedFiles = ProbeFiles
  /\ Len(response.body.apiChanges) = 1
  /\ response.body.apiChanges[1].filename = "app/controllers/routes.js"
  /\ response.body.apiChanges[1].changes = << "+app.get('/c', h); router.post('/d', h);" >>

\* C15: every line detectApiChanges records also yields at least one
\* descriptor when it is given to extractApiEndpoints.
C15_RecordedLinesAreExtracted ==
  Returned("get_api_changes") =>
    \A n \in 1..Len(response.body.apiChanges) :
      \A k \in 1..Len(response.body.apiChanges[n].changes) :
        extractApiEndpoints(response.body.apiChanges[n].changes[k],
                            response.body.apiChanges[n].filename) # << >>

RECURSIVE Collapse(_)
Collapse(pattern) ==
  IF Len(pattern) = 0 THEN ""
  ELSE IF Len(pattern) >= 2 /\ SubSeq(pattern, 1, 2) = "**"
  THEN Collapse(SubSeq(pattern, 2, Len(pattern)))
  ELSE Ch(pattern, 1) \o Collapse(SubSeq(pattern, 2, Len(pattern)))

CollapsedOf == [p \in AllPatterns |-> Collapse(p)]

DeepFile == "src/main/java/CampaignController.java"

\* The pattern test answers alike for a pattern and its collapsed form.
CollapsedAnswersAlike ==
  \A p \in AllPatterns, f \in FileNames :
    /\ PatternThrows(p) = PatternThrows(CollapsedOf[p])
    /\ PatternMatches(p, f) = PatternMatches(CollapsedOf[p], f)

\* C17: a pattern and the pattern with its runs of stars collapsed give the
\* same answer on every path, so a filtering tool returns the files the
\* collapsed patterns match; and a single star crosses path separators:
\* src/*/*Controller* matches a file two directories below src.
C17_StarRunsCollapse ==
  /\ CollapsedAnswersAlike
  /\ Filtered =>
       KeptNames =
         Names(SelectSeq(FetchedFiles,
                         LAMBDA f : MatchesSome(f, [j \in 1..Len(ApiPatterns) |->
                                                      CollapsedOf[ApiPatterns[j]]])))
  /\ (Filtered /\ ApiPatterns = << "src/*/*Controller*" >>
        /\ InSeq(DeepFile, Names(FetchedFiles)))
       => InSeq(DeepFile, KeptNames)

C17_Witness ==
  /\ Filtered /\ ApiPatterns = << "src/**/*Controller*" >>
  /\ FetchedFiles = ProbeFiles
  /\ KeptNames = << DeepFile >>

\* C18: a line carrying a route construct whose path is absent or is not a
\* quoted literal still gets a descriptor: every line of the content of
\* such constructs has at least one descriptor in the result.
C18_AmbiguousLinesAreReported ==
  Analyzed(AmbiguousContent) =>
    \A n \in 1..Len(split(AmbiguousContent)) : OfLine(response.body.endpoints, n) # << >>


\* No configured service has this name, compared without regard to case.
NoServiceNamed(serviceName) ==
  \A k \in 1..Len(SERVICES) : toLowerCase(SERVICES[k].name) # toLowerCase(serviceName)

\* C19: for each of the six tools that look up a service, a valid request
\* whose serviceName matches no configured service (case-insensitively) is
\* answered with the "not found" text, never throws and never reaches the
\* remote client; and with an empty pattern list the classification of any
\* file list returns no records instead of throwing.
C19_ConfigurationErrorsAreResults ==
  /\ ( /\ phase # "idle" /\ call.name \in ServiceTools /\ call.valid
       /\ NoServiceNamed(call.serviceName) )
     => /\ phase = "done"
        /\ response = [kind |-> "notfound", text |-> call.serviceName, body |-> << >>]
        /\ fetched = NoData
  /\ (Scanned("get_api_changes") /\ ApiPatterns = << >>)
     => response.kind = "json" /\ response.body.apiChanges = << >>
  /\ (Scanned("compare_branches") /\ ApiPatterns = << >>)
     => response.kind = "json" /\ response.body.apiFilesChanged = 0

C19_Witness ==
  /\ phase = "done" /\ call.name = "get_pull_requests" /\ call.valid
  /\ call.serviceName = "billing" /\ NoServiceNamed("billing")
  /\ response.kind = "notfound" /\ response.text = "billing"


\* What the handler returns for a request that is the only one in flight: a
\* function of the request's own arguments and awaited data and of SERVICES.
AloneResponse(req) ==
  LET files == IF req.fetched.files = << >> THEN << >> ELSE req.fetched.files[1]
      apiChanges == detectApiChanges(files, ApiPatterns)
      endpoints == Extracted[req.fetched.content[1]]
  IN CASE req.call.name = "get_api_changes" ->
            IF apiChanges.threw
            THEN [kind |-> "error", text |-> "SyntaxError", body |-> << >>]
            ELSE [kind |-> "json", text |-> "",
                  body |-> [service |-> SERVICES[1].name, apiChanges |-> apiChanges.value]]
       [] req.call.name = "analyze_api_endpoint" ->
            [kind |-> "json", text |-> "",
             body |-> [service |-> SERVICES[1].name, endpoints |-> endpoints,
                       totalEndpoints |-> Len(endpoints)]]

\* The remote client answered the request and the core function ran on it.
Computed(req) ==
  /\ req.phase = "done"
  /\ req.call.name \in {"get_api_changes", "analyze_api_endpoint"}
  /\ req.response.kind = "json" \/ req.response.text = "SyntaxError"

\* C20: with several requests in flight and their awaits resolving in any
\* order, every step leaves SERVICES and the state of every other request
\* as they were, keeps the arguments of the request it completes, and the
\* result of each completed detectApiChanges or extractApiEndpoints request
\* is the one it gets when it runs alone on its own files, patterns or content.
C20_InvocationsIndependent ==
  [][ /\ SERVICES' = SERVICES
      /\ \A r \in Requests :
           /\ Computed(requests'[r]) => requests'[r].response = AloneResponse(requests'[r])
           /\ requests'[r] # requests[r] =>
                \A q \in Requests \ {r} : requests'[q] = requests[q]
           /\ requests[r].phase = "awaiting" => requests'[r].call = requests[r].call
    ]_vars

C20_Witness ==
  /\ \A r \in {1, 2} : /\ requests[r].phase = "done"
                        /\ requests[r].call.name = "get_api_changes"
                        /\ requests[r].response.kind = "json"
  /\ requests[1].fetched.files # requests[2].fetched.files
  /\ requests[1].response.body.apiChanges # requests[2].response.body.apiChanges


\* The descriptors each signature of the table adds for a content.
BySignature ==
  [content \in Contents |->
     [sig \in 1..Len(patterns) |->
        LET lines == split(content)
        IN UNION { { SigEndpoints(patterns[sig], lines[n], n - 1)[m] :
                       m \in 1..Len(SigEndpoints(patterns[sig], lines[n], n - 1)) } :
                   n \in 1..Len(lines) }]]

C22_PathFiltersAgree ==
  Scanned("compare_branches") =>
    LET records == detectApiChanges(FetchedFiles, ApiPatterns)
    IN /\ records.threw <=> response.kind = "error"
       /\ ~records.threw =>
            /\ KeptNames = [n \in 1..Len(records.value) |-> records.value[n].filename]
            /\ response.body.apiFilesChanged = Len(records.value)

C22_Witness ==
  /\ Returned("compare_branches")
  /\ Len(FetchedFiles) = 2
  /\ response.body.apiFilesChanged = 1
  /\ KeptNames = << FetchedFiles[2].filename >>
  /\ Len(detectApiChanges(FetchedFiles, ApiPatterns).value) = 1


\* A request handled from scratch: what the handler has done with a call
\* before any answer of the remote client, given only the call and SERVICES.
HandledAfresh(req) ==
  /\ req.fetched = NoData
  /\ CASE req.call.name \notin KnownTools ->
            req.phase = "done" /\ req.response.kind = "unknown"
       [] req.call.name = "list_services" ->
            req.phase = "done" /\ req.response.kind = "json"
       [] req.call.name # "list_services" /\ req.call.name \in KnownTools /\ ~req.call.valid ->
            req.phase = "done" /\ req.response.kind = "error"
       [] req.call.name = "get_test_template" /\ req.call.valid ->
            req.phase = "done" /\ req.response.kind = "json"
       [] req.call.name \in ServiceTools /\ req.call.valid
            /\ NoServiceNamed(req.call.serviceName) ->
            req.phase = "done" /\ req.response.kind = "notfound"
       [] req.call.name \in ServiceTools /\ req.call.valid
            /\ ~NoServiceNamed(req.call.serviceName) ->
            req.phase = "awaiting" /\ req.response = NoResponse

\* What threw when the answer is Error: <message>.
Thrown == {"ZodError", "RequestError", "SyntaxError"}

\* Every step ends in an answer of one of the given kinds or in a call
\* still awaiting the remote client, and the step after a failed call
\* handles its call from scratch.
Answered(kinds) ==
  /\ SERVICES' = SERVICES
  /\ phase' \in {"awaiting", "done"}
  /\ phase' = "awaiting" => response' = NoResponse
  /\ phase' = "done" =>
       /\ response'.kind \in kinds
       /\ response'.kind = "unknown" =>
            response'.text = call'.name /\ call'.name \notin KnownTools
       /\ response'.kind = "error" => response'.text \in Thrown /\ response'.body = << >>
       /\ response'.kind = "json" => call'.name \in KnownTools
  /\ (phase = "done" /\ response.kind = "error") => HandledAfresh(requests'[1])

\* C23, as stated: every call is answered with the tool's JSON result, with
\* Unknown tool: <name> or with Error: <message>, whatever failed, and the
\* call after a failed one is handled as if the failed one had not happened.
C23_JsonUnknownOrError == [][Answered({"json", "unknown", "error"})]_vars

\* C23, amended: the answers are the tool's JSON result, the text that the
\* service was not found, Unknown tool: <name> or Error: <message>; no
\* failure leaves the handler as a fault, and the call after a failed one is
\* handled as if the failed one had not happened.
C23_EveryCallIsAnswered == [][Answered({"json", "notfound", "unknown", "error"})]_vars

C23_Witness ==
  /\ phase = "done" /\ call.name = "get_api_details" /\ call.valid
  /\ response = [kind |-> "error", text |-> "RequestError", body |-> << >>]

====
